---- MODULE Spec2Model ----
(***************************************************************************)
(* Model of the response-formatting pipeline of src/koti.py                *)
(* (format_gemini_response): score extraction, section splitting and       *)
(* section rendering.                                                      *)
(*                                                                         *)
(* A Python string is a sequence of characters.  A character is a TLA+     *)
(* string: one-character strings for the characters the regular            *)
(* expressions tell apart (digits, ".", "*", "#", "-", ":", "/", blank,    *)
(* line break, the three characters of the bullet literal), and atomic     *)
(* tokens for the literals the code matches or emits as a whole (the score *)
(* label, the HTML tags) and for ordinary words.                           *)
(***************************************************************************)
EXTENDS Integers, Sequences, FiniteSets, TLC

VARIABLES raw_text, pc, credibility_score, sections, sec_idx, formatted,
          html_output, exc,
          model, tokenizer, client, requests, frames, responses, calls,
          page

\* one call of format_gemini_response
fmt == <<raw_text, pc, credibility_score, sections, sec_idx, formatted,
         html_output, exc>>

\* the process-wide objects (koti.py:19-33)
globals == <<model, tokenizer, client>>

\* the web requests in flight
web == <<requests, frames, responses, calls>>

\* page: the document of the browser and the calls of its script under way
vars == <<fmt, globals, web, page>>

(***************************************************************************)
(* Characters and Python string helpers                                    *)
(***************************************************************************)
\* an optional value: None is the empty sequence, Some(v) the one-element one
None == <<>>
Some(v) == <<v>>
NoChar == "<no character>"
NoExc == "no exception"
ValueError == "ValueError"

NL == "\n"
SP == " "
\* str.strip() / regex \s : the whitespace characters of the model
Whitespace == {SP, NL, "\t"}
Digit == {"0", "1", "2", "3", "4", "5", "6", "7", "8", "9"}

DigitVal(c) ==
  CASE c = "0" -> 0 [] c = "1" -> 1 [] c = "2" -> 2 [] c = "3" -> 3
    [] c = "4" -> 4 [] c = "5" -> 5 [] c = "6" -> 6 [] c = "7" -> 7
    [] c = "8" -> 8 [] c = "9" -> 9

\* the bullet literal of the source is the three-character string at
\* koti.py:101,106,110 (U+201A, U+00C4, U+00A2)
BulletGlyph == <<"U+201A", "U+00C4", "U+00A2">>

\* s[p], NoChar outside the string
CharAt(s, p) == IF p >= 1 /\ p <= Len(s) THEN s[p] ELSE NoChar

\* s[a..b] of Python slicing, 1-based and inclusive, empty when a > b
Slice(s, a, b) == IF a > b THEN <<>> ELSE SubSeq(s, a, b)

StartsWith(s, prefix) ==
  /\ Len(prefix) <= Len(s)
  /\ \A k \in 1..Len(prefix) : s[k] = prefix[k]

\* prefix occurs in s at position p
OccursAt(s, p, prefix) ==
  /\ p >= 1
  /\ p + Len(prefix) - 1 <= Len(s)
  /\ \A k \in 1..Len(prefix) : s[p + k - 1] = prefix[k]

\* `sub in s`
Contains(s, sub) == \E p \in 1..Len(s) : OccursAt(s, p, sub)

RECURSIVE LStripChars(_, _)
LStripChars(s, chars) ==
  IF s # <<>> /\ Head(s) \in chars THEN LStripChars(Tail(s), chars) ELSE s

RECURSIVE RStripChars(_, _)
RStripChars(s, chars) ==
  IF s # <<>> /\ s[Len(s)] \in chars
  THEN RStripChars(SubSeq(s, 1, Len(s) - 1), chars) ELSE s

\* str.strip()
Strip(s) == RStripChars(LStripChars(s, Whitespace), Whitespace)

\* str.split(sep) for a non-empty separator: left to right, non-overlapping
RECURSIVE StrSplitFrom(_, _, _, _)
StrSplitFrom(s, sep, start, j) ==
  IF j + Len(sep) - 1 > Len(s) THEN << Slice(s, start, Len(s)) >>
  ELSE IF OccursAt(s, j, sep)
       THEN << Slice(s, start, j - 1) >>
            \o StrSplitFrom(s, sep, j + Len(sep), j + Len(sep))
       ELSE StrSplitFrom(s, sep, start, j + 1)

StrSplit(s, sep) == StrSplitFrom(s, sep, 1, 1)

\* ''.join(parts)
RECURSIVE Join(_)
Join(parts) == IF parts = <<>> THEN <<>> ELSE Head(parts) \o Join(Tail(parts))

\* int(s): base-ten value; ValueError for an empty or non-digit string, and
\* for more digits than the interpreter converts (sys.int_info
\* .default_max_str_digits of CPython 3.11, and of 3.7 to 3.10 since the
\* releases of September 2022)
IntMaxStrDigits == 4300

RECURSIVE IntValue(_)
IntValue(ds) ==
  IF ds = <<>> THEN 0
  ELSE 10 * IntValue(SubSeq(ds, 1, Len(ds) - 1)) + DigitVal(ds[Len(ds)])

PyIntRaises(ds) ==
  \/ ds = <<>>
  \/ \E k \in 1..Len(ds) : ds[k] \notin Digit
  \/ Len(ds) > IntMaxStrDigits

\* end of the longest run of characters of `class` starting at p (p-1 if
\* none): the position before the first character that is not of the class
RunEnd(s, p, class) ==
  IF p > Len(s) THEN p - 1
  ELSE (CHOOSE k \in p..(Len(s) + 1) :
          /\ k = Len(s) + 1 \/ s[k] \notin class
          /\ \A j \in p..(k - 1) : s[j] \in class) - 1

(***************************************************************************)
(* Score Extractor: koti.py:76-77                                          *)
(***************************************************************************)
\* re.IGNORECASE on the label literals
Lower(c) ==
  CASE c = "Credibility Score" -> "credibility score"
    [] c = "Overall" -> "overall"
    [] OTHER -> c

\* (?:Overall Credibility Score|Credibility Score) at p: the position after
\* the label, 0 when neither alternative matches
LabelEnd(text, p) ==
  IF /\ Lower(CharAt(text, p)) = "overall"
     /\ CharAt(text, p + 1) = SP
     /\ Lower(CharAt(text, p + 2)) = "credibility score" THEN p + 3
  ELSE IF Lower(CharAt(text, p)) = "credibility score" THEN p + 1
  ELSE 0

\* a match object: matched is FALSE for Python's None
NoMatch == [matched |-> FALSE, group1 |-> <<>>]
Match(g) == [matched |-> TRUE, group1 |-> g]

\* (\d+)/10 at q: \d+ is greedy and gives characters back one at a time
\* until "/10" follows; the end of group 1, 0 when there is no match
RECURSIVE DigitsBacktrack(_, _, _)
DigitsBacktrack(text, q, k) ==
  IF k < q THEN 0
  ELSE IF OccursAt(text, k + 1, <<"/", "1", "0">>) THEN k
  ELSE DigitsBacktrack(text, q, k - 1)

\* variant: (\d)/10, a single digit
ScoreTokenEnd_OneDigit(text, q) ==
  IF CharAt(text, q) \in Digit /\ OccursAt(text, q + 1, <<"/", "1", "0">>)
  THEN q ELSE 0

ScoreTokenEnd(text, q) == DigitsBacktrack(text, q, RunEnd(text, q, Digit))

\* variant: a greedy .* takes the line and gives characters back, so the
\* last N/10 of the line is the one matched
LazyDotScan_Greedy(text, q) ==
  LET starts == {r \in q..Len(text) :
                   /\ ScoreTokenEnd(text, r) > 0
                   /\ \A k \in q..(r - 1) : text[k] # NL}
  IN IF starts = {} THEN NoMatch
     ELSE LET r == CHOOSE r \in starts : \A r2 \in starts : r2 <= r
          IN Match(Slice(text, r, ScoreTokenEnd(text, r)))

\* .*? after the label: try (\d+)/10 at q, else let the dot take one more
\* character; without re.DOTALL the dot does not take a line break
RECURSIVE LazyDotScan(_, _)
LazyDotScan(text, q) ==
  IF q > Len(text) THEN NoMatch
  ELSE IF ScoreTokenEnd(text, q) > 0
       THEN Match(Slice(text, q, ScoreTokenEnd(text, q)))
  ELSE IF text[q] = NL THEN NoMatch
  ELSE LazyDotScan(text, q + 1)

\* re.search: the leftmost start position at which the pattern matches
RECURSIVE ScoreSearchFrom(_, _)
ScoreSearchFrom(text, p) ==
  IF p > Len(text) THEN NoMatch
  ELSE IF LabelEnd(text, p) > 0 /\ LazyDotScan(text, LabelEnd(text, p)).matched
       THEN LazyDotScan(text, LabelEnd(text, p))
  ELSE ScoreSearchFrom(text, p + 1)

score_match(text) == ScoreSearchFrom(text, 1)

\* int(score_match.group(1)) if score_match else None
\* [raises |-> exception or NoExc, value |-> optional integer]
ExtractScoreValue(text) ==
  IF score_match(text).matched
  THEN IF PyIntRaises(score_match(text).group1)
       THEN [raises |-> ValueError, value |-> None]
       ELSE [raises |-> NoExc, value |-> Some(IntValue(score_match(text).group1))]
  ELSE [raises |-> NoExc, value |-> None]

(***************************************************************************)
(* Section Splitter: koti.py:80                                            *)
(***************************************************************************)
\* \d+\.\s+\*\* at p (greedy runs; a shorter run is followed by a character
\* of the same class, so only the longest can be followed by the next atom)
NumberedBoldAt(text, p) ==
  LET d == RunEnd(text, p, Digit)
      w == RunEnd(text, d + 2, Whitespace)
  IN /\ d >= p
     /\ CharAt(text, d + 1) = "."
     /\ w >= d + 2
     /\ CharAt(text, w + 1) = "*"
     /\ CharAt(text, w + 2) = "*"

\* variant: \#+\s+, any number of "#"
HashHeadingAt_AnyCount(text, p) ==
  \E n \in 1..Len(text) :
    /\ \A k \in 0..(n - 1) : CharAt(text, p + k) = "#"
    /\ CharAt(text, p + n) \in Whitespace

\* \#{1,3}\s+ at p
HashHeadingAt(text, p) ==
  \E n \in 1..3 :
    /\ \A k \in 0..(n - 1) : CharAt(text, p + k) = "#"
    /\ CharAt(text, p + n) \in Whitespace

\* the lookahead (?=\d+\.\s+\*\*|\#{1,3}\s+) at p
MarkerAt(text, p) == NumberedBoldAt(text, p) \/ HashHeadingAt(text, p)

\* re.split(r'\n(?=...)', text): scan for the separator from j; the current
\* piece began at start; the matched line break belongs to no piece
RECURSIVE ReSplitFrom(_, _, _)
ReSplitFrom(text, start, j) ==
  IF j > Len(text) THEN << Slice(text, start, Len(text)) >>
  ELSE IF text[j] = NL /\ MarkerAt(text, j + 1)
       THEN << Slice(text, start, j - 1) >> \o ReSplitFrom(text, j + 1, j + 1)
       ELSE ReSplitFrom(text, start, j + 1)

SplitSections(text) == ReSplitFrom(text, 1, 1)

(***************************************************************************)
(* Section Renderer: koti.py:84-134                                        *)
(***************************************************************************)
DivOpen == "<div class=\"analysis-section\">"
DivClose == "</div>"
H3Open == "<h3 class=\"section-title\">"
H3Close == "</h3>"
SpanOpen == "<span class=\"section-number\">"
SpanClose == "</span>"
UlOpen == "<ul class=\"analysis-list\">"
UlClose == "</ul>"
LiOpen == "<li>"
LiClose == "</li>"
POpen == "<p class=\"analysis-text\">"
PClose == "</p>"
StrongOpen == "<strong>"
StrongClose == "</strong>"
EmOpen == "<em>"
EmClose == "</em>"

\* the closing delimiter of (.+?) followed by delim, scanning from e: the
\* lazy group takes one more character while delim does not follow; `dotall`
\* tells whether the dot takes a line break.  0 when there is none.
RECURSIVE LazyClose(_, _, _, _)
LazyClose(s, e, delim, dotall) ==
  IF e + Len(delim) - 1 > Len(s) THEN 0
  ELSE IF OccursAt(s, e, delim) THEN e
  ELSE IF s[e] = NL /\ ~dotall THEN 0
  ELSE LazyClose(s, e + 1, delim, dotall)

\* delim(.+?)delim at p: the position of the closing delimiter, 0 if none.
\* The group takes at least the character after the opening delimiter.
DelimitedAt(s, p, delim, dotall) ==
  IF /\ OccursAt(s, p, delim)
     /\ p + Len(delim) <= Len(s)
     /\ (s[p + Len(delim)] # NL \/ dotall)
  THEN LazyClose(s, p + Len(delim) + 1, delim, dotall)
  ELSE 0

\* section_match = re.match(r'(\d+)\.\s+\*\*(.+?)\*\*:?\s*(.*)', section,
\* re.DOTALL): [matched, num, title, content]
NoSectionMatch == [matched |-> FALSE, num |-> <<>>, title |-> <<>>, content |-> <<>>]

section_match(section) ==
  LET d == RunEnd(section, 1, Digit)
      w == RunEnd(section, d + 2, Whitespace)
      c == DelimitedAt(section, w + 1, <<"*", "*">>, TRUE)
      a == IF CharAt(section, c + 2) = ":" THEN c + 3 ELSE c + 2
      r == RunEnd(section, a, Whitespace) + 1
  IN IF /\ d >= 1
        /\ CharAt(section, d + 1) = "."
        /\ w >= d + 2
        /\ c > 0
     THEN [matched |-> TRUE,
           num |-> Slice(section, 1, d),
           title |-> Slice(section, w + 3, c - 1),
           content |-> Slice(section, r, Len(section))]
     ELSE NoSectionMatch

\* re.sub(delim(.+?)delim, open \1 close, s) scanning from p, without
\* re.DOTALL: replace at the leftmost match and go on after it
RECURSIVE ReSubDelimited(_, _, _, _, _)
ReSubDelimited(s, p, delim, open, close) ==
  IF p > Len(s) THEN <<>>
  ELSE IF DelimitedAt(s, p, delim, FALSE) > 0
       THEN <<open>>
            \o Slice(s, p + Len(delim), DelimitedAt(s, p, delim, FALSE) - 1)
            \o <<close>>
            \o ReSubDelimited(s, DelimitedAt(s, p, delim, FALSE) + Len(delim),
                              delim, open, close)
       ELSE <<s[p]>> \o ReSubDelimited(s, p + 1, delim, open, close)

\* variant: the single-marker substitution before the double-marker one
ConvertEmphasis_EmFirst(content) ==
  ReSubDelimited(ReSubDelimited(content, 1, <<"*">>, EmOpen, EmClose),
                 1, <<"*", "*">>, StrongOpen, StrongClose)

\* koti.py:97-98 and 131-132: strong first, then em
ConvertEmphasis(content) ==
  ReSubDelimited(ReSubDelimited(content, 1, <<"*", "*">>, StrongOpen, StrongClose),
                 1, <<"*">>, EmOpen, EmClose)

\* re.search(r'^\s*-\s+', content, re.MULTILINE): at some line start, a
\* (greedy) whitespace run, a hyphen, and at least one whitespace character
HyphenLineAt(content, p) ==
  LET w == RunEnd(content, p, Whitespace)
  IN CharAt(content, w + 1) = "-" /\ CharAt(content, w + 2) \in Whitespace

HasHyphenLine(content) ==
  \E p \in 1..(Len(content) + 1) :
    /\ (p = 1 \/ content[p - 1] = NL)
    /\ HyphenLineAt(content, p)

\* koti.py:101
HasBulletIndicator(content) ==
  Contains(content, BulletGlyph) \/ HasHyphenLine(content)

\* koti.py:106
IsBulletLine(line) == StartsWith(line, BulletGlyph) \/ StartsWith(line, <<"-">>)

\* koti.py:110: the characters of the argument of lstrip
BulletStripChars == {BulletGlyph[k] : k \in 1..Len(BulletGlyph)} \cup {"-", SP}

ListItem(line) == Strip(LStripChars(line, BulletStripChars))

Paragraph(t) == <<POpen>> \o t \o <<PClose>>
ListItemElement(t) == <<LiOpen>> \o t \o <<LiClose>>

\* variant: without the closing of a list that is open after the last line
RECURSIVE RenderLines_NoFinalClose(_, _, _)
RenderLines_NoFinalClose(lines, k, in_list) ==
  IF k > Len(lines) THEN <<>>
  ELSE LET line == Strip(lines[k])
       IN IF IsBulletLine(line)
          THEN (IF ~in_list THEN << <<UlOpen>> >> ELSE <<>>)
               \o (IF ListItem(line) # <<>>
                   THEN << ListItemElement(ListItem(line)) >> ELSE <<>>)
               \o RenderLines_NoFinalClose(lines, k + 1, TRUE)
          ELSE (IF in_list THEN << <<UlClose>> >> ELSE <<>>)
               \o (IF line # <<>> THEN << Paragraph(line) >> ELSE <<>>)
               \o RenderLines_NoFinalClose(lines, k + 1, FALSE)

\* koti.py:104-120: the loop over lines from index k with the flag in_list;
\* the elements appended to `formatted`
RECURSIVE RenderLines(_, _, _)
RenderLines(lines, k, in_list) ==
  IF k > Len(lines) THEN (IF in_list THEN << <<UlClose>> >> ELSE <<>>)
  ELSE LET line == Strip(lines[k])
       IN IF IsBulletLine(line)
          THEN (IF ~in_list THEN << <<UlOpen>> >> ELSE <<>>)
               \o (IF ListItem(line) # <<>>
                   THEN << ListItemElement(ListItem(line)) >> ELSE <<>>)
               \o RenderLines(lines, k + 1, TRUE)
          ELSE (IF in_list THEN << <<UlClose>> >> ELSE <<>>)
               \o (IF line # <<>> THEN << Paragraph(line) >> ELSE <<>>)
               \o RenderLines(lines, k + 1, FALSE)

\* koti.py:122-125: one paragraph per non-blank block between blank lines
RECURSIVE RenderParagraphs(_, _)
RenderParagraphs(blocks, k) ==
  IF k > Len(blocks) THEN <<>>
  ELSE (IF Strip(blocks[k]) # <<>> THEN << Paragraph(Strip(blocks[k])) >> ELSE <<>>)
       \o RenderParagraphs(blocks, k + 1)

\* variant: without bullet indicator, one paragraph per line
RenderBody_PerLine(raw_content) ==
  LET content == ConvertEmphasis(Strip(raw_content))
  IN IF HasBulletIndicator(content)
     THEN RenderLines(StrSplit(content, <<NL>>), 1, FALSE)
     ELSE RenderParagraphs(StrSplit(content, <<NL>>), 1)

\* koti.py:95-125: the body of a matched section
RenderBody(raw_content) ==
  LET content == ConvertEmphasis(Strip(raw_content))
  IN IF HasBulletIndicator(content)
     THEN RenderLines(StrSplit(content, <<NL>>), 1, FALSE)
     ELSE RenderParagraphs(StrSplit(content, <<NL, NL>>), 1)

\* koti.py:92
TitleElement(num, title) ==
  <<H3Open, SpanOpen>> \o num \o <<SpanClose>> \o title \o <<H3Close>>

\* variant: the container without the title element
RenderMatched_NoTitle(m) ==
  << <<DivOpen>> >> \o RenderBody(m.content) \o << <<DivClose>> >>

\* koti.py:89-127
RenderMatched(m) ==
  << <<DivOpen>>, TitleElement(m.num, m.title) >>
  \o RenderBody(m.content)
  \o << <<DivClose>> >>

\* variant: the body steps of a matched section on an unmatched candidate
RenderUnmatched_Shared(section) == RenderBody(section)

\* koti.py:129-134
RenderUnmatched(section) ==
  LET content == ConvertEmphasis(Strip(section))
  IN IF content # <<>> THEN << Paragraph(content) >> ELSE <<>>

\* koti.py:84-134: one iteration of the loop over sections; the elements it
\* appends to `formatted`
RenderSection(section) ==
  IF Strip(section) = <<>> THEN <<>>
  ELSE IF section_match(section).matched THEN RenderMatched(section_match(section))
  ELSE RenderUnmatched(section)

(***************************************************************************)
(* Response Formatter: koti.py:70-138, one action per statement group      *)
(***************************************************************************)
\* koti.py:76-77
ExtractScore ==
  /\ pc = "score"
  /\ LET r == ExtractScoreValue(raw_text)
     IN IF r.raises # NoExc
        THEN /\ exc' = r.raises
             /\ pc' = "raised"
             /\ UNCHANGED credibility_score
        ELSE /\ credibility_score' = r.value
             /\ pc' = "split"
             /\ UNCHANGED exc
  /\ UNCHANGED <<raw_text, sections, sec_idx, formatted, html_output>>
  /\ UNCHANGED <<globals, web, page>>

\* koti.py:80-81
Split ==
  /\ pc = "split"
  /\ sections' = SplitSections(raw_text)
  /\ formatted' = <<>>
  /\ sec_idx' = 1
  /\ pc' = "render"
  /\ UNCHANGED <<raw_text, credibility_score, html_output, exc>>
  /\ UNCHANGED <<globals, web, page>>

\* variant: the elements of a section are put in front of `formatted`
RenderNext_Prepend ==
  /\ pc = "render"
  /\ sec_idx <= Len(sections)
  /\ formatted' = RenderSection(sections[sec_idx]) \o formatted
  /\ sec_idx' = sec_idx + 1
  /\ UNCHANGED <<raw_text, pc, credibility_score, sections, html_output, exc>>
  /\ UNCHANGED <<globals, web, page>>

\* koti.py:83-134: one iteration of `for section in sections`
RenderNext ==
  /\ pc = "render"
  /\ sec_idx <= Len(sections)
  /\ formatted' = formatted \o RenderSection(sections[sec_idx])
  /\ sec_idx' = sec_idx + 1
  /\ UNCHANGED <<raw_text, pc, credibility_score, sections, html_output, exc>>
  /\ UNCHANGED <<globals, web, page>>

\* koti.py:136-138
Return ==
  /\ pc = "render"
  /\ sec_idx > Len(sections)
  /\ html_output' = Join(formatted)
  /\ pc' = "done"
  /\ UNCHANGED <<raw_text, credibility_score, sections, sec_idx, formatted, exc>>
  /\ UNCHANGED <<globals, web, page>>

Next == ExtractScore \/ Split \/ RenderNext \/ Return

\* koti.py:938-999, 1035: the page as it is loaded, no call of its script
\* under way
PageLoaded ==
  [newsText |-> "",
   currentAnalysisType |-> "null",
   loading |-> FALSE,
   results |-> FALSE,
   detectionResult |-> "none",
   credibilityResult |-> "none",
   resultLabel |-> [textContent |-> "-", className |-> "label"],
   confidencePercent |-> 0,
   progressFill |-> 0,
   credibilityAnalysis |-> <<"Analysis will appear here...">>,
   scoreContainer |-> "none",
   scoreValue |-> None,
   scoreCircle |-> "score-circle",
   alerts |-> <<>>,
   clicks |-> 0,
   invocations |-> <<>>,
   timers |-> <<>>]

\* koti.py:19-33: tokenizer and model loaded, model in evaluation mode, the
\* API client made, once at the start of the process
ProcessStarted ==
  /\ tokenizer = "loaded"
  /\ model = "eval"
  /\ client = "initialized"

\* no web request in flight
NoRequests ==
  /\ requests = <<>>
  /\ frames = <<>>
  /\ responses = <<>>
  /\ calls = <<>>

\* the state at the call of format_gemini_response(text)
Called(text) ==
  /\ ProcessStarted
  /\ NoRequests
  /\ page = PageLoaded
  /\ raw_text = text
  /\ pc = "score"
  /\ credibility_score = None
  /\ sections = <<>>
  /\ sec_idx = 1
  /\ formatted = <<>>
  /\ html_output = <<>>
  /\ exc = NoExc

(***************************************************************************)
(* Inputs.  A raw text is a concatenation of a bounded number of chunks,   *)
(* or one of the worked examples of the formatter's description.           *)
(***************************************************************************)
SeqsUpTo(S, n) == UNION {[1..k -> S] : k \in 0..n}

MaxScoreChunks == 5

ScoreChunks ==
  { <<"Credibility Score">>, <<"credibility score">>,
    <<"7">>, <<"1">>, <<"/", "1", "0">>, <<NL>>, <<"x">> }

ScoreExample7 ==
  <<"Overall", SP, "Credibility Score", ":", SP, "blah", SP, "blah", SP,
    "7", "/", "1", "0">>
ScoreExample15 == <<"Credibility Score", ":", SP, "1", "5", "/", "1", "0">>
FreeformExample ==
  <<"Some", SP, "freeform", SP, "paragraph", SP, "with", SP, "no", SP,
    "markers", ".">>

ScoreExamples ==
  { ScoreExample7, ScoreExample15, FreeformExample,
    <<"overall", SP, "credibility score", SP, "7", "/", "1", "0">>,
    <<"Overall", SP, "x", SP, "7", "/", "1", "0">>,
    <<"Overall", SP, "Credibility Score", NL, "7", "/", "1", "0">>,
    <<"Overall", "Credibility Score", SP, "1", "/", "1", "0", "0">> }

InitScore ==
  \/ \E cs \in SeqsUpTo(ScoreChunks, MaxScoreChunks) : Called(Join(cs))
  \/ \E t \in ScoreExamples : Called(t)

SpecScore == InitScore /\ [][Next]_vars

\* '\n'.join(lines)
RECURSIVE JoinLines(_)
JoinLines(lines) ==
  IF lines = <<>> THEN <<>>
  ELSE IF Len(lines) = 1 THEN lines[1]
  ELSE lines[1] \o <<NL>> \o JoinLines(Tail(lines))

\* raw texts of at most MaxSplitLines lines, for the splitter
MaxSplitLines == 3

SplitLineKinds ==
  { <<"1", ".", SP, "*", "*", "A", "*", "*", ":", SP, "x">>,
    <<"2", ".", SP, "*", "*", "B", "*", "*", ":", SP, "y">>,
    <<"1", "2", ".", SP, SP, "*", "*", "C", "*", "*">>,
    <<"#", SP, "a">>,
    <<"#", "#", "#">>,
    <<"#", "#", "#", "#", SP, "a">>,
    <<"#", "a">>,
    <<"a", SP, "1", ".", SP, "*", "*", "b">>,
    <<"1", ".", "*", "*", "a">>,
    <<"1", ".">>,
    <<"*", "*", "A", "*", "*">>,
    <<"a">>,
    <<SP>>,
    <<>> }

InitSplit ==
  \E ls \in SeqsUpTo(SplitLineKinds, MaxSplitLines) : Called(JoinLines(ls))

SpecSplit == InitSplit /\ [][Next]_vars

\* raw texts made of an optional numbered bold heading line and at most
\* MaxBodyLines further lines, for the renderer
MaxBodyLines == 4

HeadingLine == <<"1", ".", SP, "*", "*", "T", "*", "*", ":">>

BodyLineKinds ==
  { <<>>,
    <<"a">>,
    <<"b">>,
    <<"-", SP, "i">>,
    <<"-", SP, "j">>,
    BulletGlyph \o <<SP, "k">>,
    <<"-", "5">>,
    <<"-">> }

InitBody ==
  \E ls \in SeqsUpTo(BodyLineKinds, MaxBodyLines) :
    \/ Called(JoinLines(ls))
    \/ Called(JoinLines(<<HeadingLine>> \o ls))

SpecBody == InitBody /\ [][Next]_vars

\* raw texts with a score of many digits: runs short enough for the value
\* to be a number of the model, and runs longer than int() converts
MaxShortRun == 8
MaxOverLimit == 3

DigitRunLengths ==
  (1..MaxShortRun) \cup {IntMaxStrDigits + k : k \in 1..MaxOverLimit}

InitDigits ==
  \E n \in DigitRunLengths, d \in {"1", "2", "7"} :
    Called(<<"Credibility Score", ":", SP>> \o [k \in 1..n |-> d]
           \o <<"/", "1", "0">>)

SpecDigits == InitDigits /\ [][Next]_vars

\* raw texts of emphasis markers and text, at most MaxEmphasisLen characters,
\* alone (an unmatched candidate) or after the heading line (the body of a
\* matched section)
MaxEmphasisLen == 6

EmphasisChars == {"*", "a", SP, NL}

BoldExample ==
  <<"*", "*", "bold", SP, "*", "and", "*", SP, "more", "*", "*">>

InitEmphasis ==
  \E t \in SeqsUpTo(EmphasisChars, MaxEmphasisLen) \cup {BoldExample} :
    \/ Called(t)
    \/ Called(HeadingLine \o <<SP>> \o t)

SpecEmphasis == InitEmphasis /\ [][Next]_vars

\* raw texts made of the heading line and at most MaxParagraphLines lines
\* without bullet marker, empty and blank lines among them
MaxParagraphLines == 5

ParagraphLineKinds ==
  { <<>>, <<SP>>, <<"a">>, <<"b">>, <<"a", SP, "b">>, <<"-", "a">> }

InitParagraphs ==
  \E ls \in SeqsUpTo(ParagraphLineKinds, MaxParagraphLines) :
    Called(JoinLines(<<HeadingLine>> \o ls))

SpecParagraphs == InitParagraphs /\ [][Next]_vars

\* raw texts whose lines hold markup of their own: the remote text is put
\* into the elements as it is (koti.py:92, 112, 118, 125, 134), so a tag in
\* the text is a tag of the markup returned
MaxMarkupLines == 3

MarkupLineKinds ==
  { <<"a">>,
    <<"-", SP, "i">>,
    <<"-", SP, UlOpen>>,
    <<UlOpen>>,
    <<UlClose>>,
    <<DivClose>>,
    <<POpen, "a", PClose>>,
    <<LiOpen, "a", LiClose>> }

InitMarkup ==
  \E ls \in SeqsUpTo(MarkupLineKinds, MaxMarkupLines) :
    \/ Called(JoinLines(ls))
    \/ Called(JoinLines(<<HeadingLine>> \o ls))

SpecMarkup == InitMarkup /\ [][Next]_vars

\* every input of the three families
Init == InitScore \/ InitSplit \/ InitBody

Spec == Init /\ [][Next]_vars

(***************************************************************************)
(* Classification: koti.py:39-65                                           *)
(***************************************************************************)
\* probabilities are fixed-point numbers, parts of ProbScale
ProbScale == 1000

\* e^(-d) in parts of ProbScale for d = 0, 1, 2, ...; it underflows to 0
ExpNeg(d) ==
  LET table == <<1000, 368, 135, 50, 18, 7, 2, 1>>
  IN IF d + 1 <= Len(table) THEN table[d + 1] ELSE 0

\* koti.py:53: torch.softmax(logits, dim=1) of one row <<fake, real>>: the
\* exponentials of the logits less their maximum, over their sum
Softmax(logits) ==
  LET m == IF logits[1] >= logits[2] THEN logits[1] ELSE logits[2]
      e1 == ExpNeg(m - logits[1])
      e2 == ExpNeg(m - logits[2])
  IN << (e1 * ProbScale) \div (e1 + e2), (e2 * ProbScale) \div (e1 + e2) >>

\* variant: a tie of the two probabilities reported as REAL NEWS
predict_fake_news_TieReal(logits) ==
  LET fake_prob == Softmax(logits)[1]
      real_prob == Softmax(logits)[2]
  IN IF real_prob >= fake_prob
     THEN [label |-> "REAL NEWS", confidence |-> real_prob]
     ELSE [label |-> "FAKE NEWS", confidence |-> fake_prob]

\* koti.py:52-65, from the logits the model gives for the text
predict_fake_news(logits) ==
  LET fake_prob == Softmax(logits)[1]
      real_prob == Softmax(logits)[2]
  IN IF real_prob > fake_prob
     THEN [label |-> "REAL NEWS", confidence |-> real_prob]
     ELSE [label |-> "FAKE NEWS", confidence |-> fake_prob]

(***************************************************************************)
(* Remote analysis and chat: koti.py:143-187                               *)
(***************************************************************************)
\* format_gemini_response(text) as one call: what the steps ExtractScore,
\* Split, RenderNext and Return compute
RECURSIVE RenderAll(_, _)
RenderAll(secs, k) ==
  IF k > Len(secs) THEN <<>>
  ELSE RenderSection(secs[k]) \o RenderAll(secs, k + 1)

format_gemini_response(text) ==
  IF ExtractScoreValue(text).raises # NoExc
  THEN [raises |-> ExtractScoreValue(text).raises, html |-> <<>>, score |-> None]
  ELSE [raises |-> NoExc,
        html |-> Join(RenderAll(SplitSections(text), 1)),
        score |-> ExtractScoreValue(text).value]

\* the outcome of client.models.generate_content: a response with a text,
\* a response without text (response.text is None), or an exception
RemoteText(t) == [kind |-> "text", text |-> t, error |-> ""]
RemoteNoText == [kind |-> "none", text |-> <<>>, error |-> ""]
RemoteRaises(msg) == [kind |-> "raises", text |-> <<>>, error |-> msg]
NotCalled == [kind |-> "not called", text |-> <<>>, error |-> ""]

TypeErrorMsg == "expected string or bytes-like object, got 'NoneType'"
ValueErrorMsg == "Exceeds the limit (4300 digits) for integer string conversion"

\* koti.py:166
ErrorParagraph(msg) ==
  <<"<p class='error'>", "Error analyzing credibility: ", msg, "</p>">>

\* variant: without the try block, the exception of the remote call leaves
\* the function
analyze_media_credibility_NoTry(outcome) ==
  IF outcome.kind = "raises"
  THEN [raises |-> outcome.error, html |-> <<>>, score |-> None]
  ELSE IF outcome.kind = "none"
  THEN [raises |-> TypeErrorMsg, html |-> <<>>, score |-> None]
  ELSE IF format_gemini_response(outcome.text).raises # NoExc
  THEN [raises |-> ValueErrorMsg, html |-> <<>>, score |-> None]
  ELSE [raises |-> NoExc,
        html |-> format_gemini_response(outcome.text).html,
        score |-> format_gemini_response(outcome.text).score]

\* koti.py:158-166, from the outcome of the remote call: every exception of
\* the try block (the call, response.text, the formatter) is caught
analyze_media_credibility(outcome) ==
  IF outcome.kind = "raises"
  THEN [raises |-> NoExc, html |-> ErrorParagraph(outcome.error), score |-> None]
  ELSE IF outcome.kind = "none"
  THEN [raises |-> NoExc, html |-> ErrorParagraph(TypeErrorMsg), score |-> None]
  ELSE IF format_gemini_response(outcome.text).raises # NoExc
  THEN [raises |-> NoExc, html |-> ErrorParagraph(ValueErrorMsg), score |-> None]
  ELSE [raises |-> NoExc,
        html |-> format_gemini_response(outcome.text).html,
        score |-> format_gemini_response(outcome.text).score]

\* koti.py:187
Apology(msg) == <<"Sorry, I encountered an error: ", msg>>

\* koti.py:180-187, from the outcome of the remote call; the reply is
\* optional: response.text may be None
chat_with_ai(outcome) ==
  IF outcome.kind = "raises"
  THEN [raises |-> NoExc, reply |-> Some(Apology(outcome.error))]
  ELSE IF outcome.kind = "none"
  THEN [raises |-> NoExc, reply |-> None]
  ELSE [raises |-> NoExc, reply |-> Some(outcome.text)]

(***************************************************************************)
(* Routes: koti.py:1241-1280.  Every request in flight has its own frame    *)
(* (the locals and the position of its handler); the steps of different    *)
(* requests interleave.                                                    *)
(***************************************************************************)
\* a key that the JSON object does not have
Absent == "<absent>"

\* request bodies: an object with the keys it has, a JSON value that is no
\* object (null, a list), or a body that request.get_json() rejects
JsonObject(text, type, message) ==
  [json |-> "object", text |-> text, type |-> type, message |-> message]
JsonNonObject ==
  [json |-> "non-object", text |-> Absent, type |-> Absent, message |-> Absent]
JsonInvalid ==
  [json |-> "invalid", text |-> Absent, type |-> Absent, message |-> Absent]

\* data.get(key, default)
Get(value, default) == IF value = Absent THEN default ELSE value

\* variant: no text is taken for missing
NotTruthy_Never(v) == FALSE

\* `not text` for a string
NotTruthy(v) == v = ""

BadRequestMsg == "400 Bad Request: Failed to decode JSON object"
AttributeErrorMsg == "'NoneType' object has no attribute 'get'"
InferenceMsg == "model inference failed"

\* the outcome of model inference on the request's text
InferLogits(l) == [raises |-> FALSE, logits |-> l]
InferRaises == [raises |-> TRUE, logits |-> <<0, 0>>]

\* responses: status and JSON body; `kind` tells the keys of the body
NoResponse ==
  [status |-> 0, kind |-> "pending", error |-> "", label |-> "",
   confidence |-> 0, analysis |-> <<>>, score |-> None, reply |-> None]

\* jsonify({'error': msg}), status
ErrorResponse(msg, status) ==
  [NoResponse EXCEPT !.status = status, !.kind = "error", !.error = msg]

\* variant: the except clause answers with status 200
RouteExcept_Ok(msg) == ErrorResponse(msg, 200)

\* koti.py:1264-1265 and 1279-1280
RouteExcept(msg) == ErrorResponse(msg, 500)

\* koti.py:1253-1256
DetectionResponse(p) ==
  [NoResponse EXCEPT !.status = 200, !.kind = "detection",
                     !.label = p.label, !.confidence = p.confidence]

\* koti.py:1259-1262
CredibilityResponse(a) ==
  [NoResponse EXCEPT !.status = 200, !.kind = "credibility",
                     !.analysis = a.html, !.score = a.score]

\* koti.py:1277
ChatResponse(c) ==
  [NoResponse EXCEPT !.status = 200, !.kind = "chat", !.reply = c.reply]

\* koti.py:1251-1263 with a type that is neither 'detection' nor
\* 'credibility': the view returns None, and the framework answers with its
\* own error page, which is no JSON
NoViewResponse == [NoResponse EXCEPT !.status = 500, !.kind = "html"]

NewFrame == [pc |-> "recv", text |-> "", remote_result |-> NotCalled]
NoCalls == [model |-> 0, remote |-> 0]

\* the handler of request r returns resp
Finish(r, resp) ==
  /\ responses' = [responses EXCEPT ![r] = resp]
  /\ frames' = [frames EXCEPT ![r].pc = "done"]

\* the handler of request r goes on at position p with the text it read
Goto(r, p, text) ==
  /\ frames' = [frames EXCEPT ![r].pc = p, ![r].text = text]
  /\ UNCHANGED responses

\* koti.py:1243-1251, 1257: analyze() up to the call it dispatches to
AnalyzeBegin ==
  \E r \in DOMAIN requests :
    /\ frames[r].pc = "recv"
    /\ requests[r].route = "/analyze"
    /\ LET body == requests[r].body
           text == Get(body.text, "")
           analysis_type == Get(body.type, "detection")
       IN IF body.json = "invalid" THEN Finish(r, RouteExcept(BadRequestMsg))
          ELSE IF body.json = "non-object"
          THEN Finish(r, RouteExcept(AttributeErrorMsg))
          ELSE IF NotTruthy(text)
          THEN Finish(r, ErrorResponse("No text provided", 400))
          ELSE IF analysis_type = "detection" THEN Goto(r, "predict", text)
          ELSE IF analysis_type = "credibility" THEN Goto(r, "credibility", text)
          ELSE Finish(r, NoViewResponse)
    /\ UNCHANGED <<fmt, page, globals, requests, calls>>

\* koti.py:1252-1256 with 39-65: predict_fake_news(text) and the answer
Predict ==
  \E r \in DOMAIN requests :
    /\ frames[r].pc = "predict"
    /\ calls' = [calls EXCEPT ![r].model = @ + 1]
    /\ IF requests[r].infer.raises
       THEN Finish(r, RouteExcept(InferenceMsg))
       ELSE Finish(r, DetectionResponse(predict_fake_news(requests[r].infer.logits)))
    /\ UNCHANGED <<fmt, page, globals, requests>>

\* variant: a failed remote call is made once more
CredibilityGenerate_Retry ==
  \E r \in DOMAIN requests :
    /\ frames[r].pc = "credibility"
    /\ calls' = [calls EXCEPT ![r].remote = @ + 1]
    /\ IF requests[r].remote.kind = "raises" /\ calls[r].remote = 0
       THEN UNCHANGED frames
       ELSE frames' = [frames EXCEPT ![r].pc = "credibility_generated",
                                     ![r].remote_result = requests[r].remote]
    /\ UNCHANGED <<fmt, page, globals, requests, responses>>

\* koti.py:145-162: the prompt and the remote call of
\* analyze_media_credibility
CredibilityGenerate ==
  \E r \in DOMAIN requests :
    /\ frames[r].pc = "credibility"
    /\ calls' = [calls EXCEPT ![r].remote = @ + 1]
    /\ frames' = [frames EXCEPT ![r].pc = "credibility_generated",
                                ![r].remote_result = requests[r].remote]
    /\ UNCHANGED <<fmt, page, globals, requests, responses>>

\* koti.py:163-166 and 1258-1262
CredibilityReturn ==
  \E r \in DOMAIN requests :
    /\ frames[r].pc = "credibility_generated"
    /\ LET a == analyze_media_credibility(frames[r].remote_result)
       IN IF a.raises # NoExc THEN Finish(r, RouteExcept(a.raises))
          ELSE Finish(r, CredibilityResponse(a))
    /\ UNCHANGED <<fmt, page, globals, requests, calls>>

\* koti.py:1269-1274: chat() up to the call of chat_with_ai
ChatBegin ==
  \E r \in DOMAIN requests :
    /\ frames[r].pc = "recv"
    /\ requests[r].route = "/chat"
    /\ LET body == requests[r].body
           message == Get(body.message, "")
       IN IF body.json = "invalid" THEN Finish(r, RouteExcept(BadRequestMsg))
          ELSE IF body.json = "non-object"
          THEN Finish(r, RouteExcept(AttributeErrorMsg))
          ELSE IF NotTruthy(message)
          THEN Finish(r, ErrorResponse("No message provided", 400))
          ELSE Goto(r, "chat", message)
    /\ UNCHANGED <<fmt, page, globals, requests, calls>>

\* variant: the prompt is kept in the process-wide client
ChatGenerate_SharedPrompt ==
  \E r \in DOMAIN requests :
    /\ frames[r].pc = "chat"
    /\ calls' = [calls EXCEPT ![r].remote = @ + 1]
    /\ client' = frames[r].text
    /\ frames' = [frames EXCEPT ![r].pc = "chat_generated",
                                ![r].remote_result = requests[r].remote]
    /\ UNCHANGED <<fmt, page, model, tokenizer, requests, responses>>

\* koti.py:173-184: the prompt and the remote call of chat_with_ai
ChatGenerate ==
  \E r \in DOMAIN requests :
    /\ frames[r].pc = "chat"
    /\ calls' = [calls EXCEPT ![r].remote = @ + 1]
    /\ frames' = [frames EXCEPT ![r].pc = "chat_generated",
                                ![r].remote_result = requests[r].remote]
    /\ UNCHANGED <<fmt, page, globals, requests, responses>>

\* koti.py:185-187 and 1276-1277
ChatReturn ==
  \E r \in DOMAIN requests :
    /\ frames[r].pc = "chat_generated"
    /\ LET c == chat_with_ai(frames[r].remote_result)
       IN IF c.raises # NoExc THEN Finish(r, RouteExcept(c.raises))
          ELSE Finish(r, ChatResponse(c))
    /\ UNCHANGED <<fmt, page, globals, requests, calls>>

NextWeb ==
  \/ AnalyzeBegin
  \/ Predict
  \/ CredibilityGenerate
  \/ CredibilityReturn
  \/ ChatBegin
  \/ ChatGenerate
  \/ ChatReturn

\* no call of format_gemini_response under way on its own
FormatterIdle ==
  /\ raw_text = <<>>
  /\ pc = "idle"
  /\ credibility_score = None
  /\ sections = <<>>
  /\ sec_idx = 1
  /\ formatted = <<>>
  /\ html_output = <<>>
  /\ exc = NoExc

\* the requests reqs (a sequence) have arrived, none handled yet
Arrived(reqs) ==
  /\ ProcessStarted
  /\ FormatterIdle
  /\ page = PageLoaded
  /\ requests = reqs
  /\ frames = [r \in DOMAIN reqs |-> NewFrame]
  /\ responses = [r \in DOMAIN reqs |-> NoResponse]
  /\ calls = [r \in DOMAIN reqs |-> NoCalls]

\* one request: every body, every outcome of inference with logits of at
\* most MaxLogit in size, and of the remote call
MaxLogit == 4

NewsText == "Scientists discover water on Mars"
Question == "Is this headline real?"
RemoteMsg == "503 UNAVAILABLE"

LongScoreText ==
  <<"Credibility Score", ":", SP>>
  \o [k \in 1..(IntMaxStrDigits + 1) |-> "1"] \o <<"/", "1", "0">>

AnalyzeBodies ==
  {JsonInvalid, JsonNonObject}
  \cup {JsonObject(t, ty, Absent) :
          t \in {Absent, "", NewsText},
          ty \in {Absent, "detection", "credibility", "summary"}}

ChatBodies ==
  {JsonInvalid, JsonNonObject}
  \cup {JsonObject(Absent, Absent, m) : m \in {Absent, "", Question}}

InferOutcomes ==
  {InferRaises}
  \cup {InferLogits(<<f, r>>) : f \in (0 - MaxLogit)..MaxLogit,
                                r \in (0 - MaxLogit)..MaxLogit}

RemoteOutcomes ==
  {RemoteRaises(RemoteMsg), RemoteNoText}
  \cup {RemoteText(t) : t \in {<<>>, ScoreExample7, FreeformExample,
                               LongScoreText}}

InitRequest ==
  \/ \E b \in AnalyzeBodies, i \in InferOutcomes, o \in RemoteOutcomes :
       Arrived(<<[route |-> "/analyze", body |-> b, infer |-> i, remote |-> o]>>)
  \/ \E b \in ChatBodies, o \in RemoteOutcomes :
       Arrived(<<[route |-> "/chat", body |-> b, infer |-> InferRaises,
                  remote |-> o]>>)

SpecRequest == InitRequest /\ [][NextWeb]_vars

\* MaxRequests requests in flight at once
MaxRequests == 2

ConcurrentRequests ==
  { [route |-> "/analyze", body |-> JsonObject(NewsText, Absent, Absent),
     infer |-> InferLogits(<<1, 0>>), remote |-> RemoteNoText],
    [route |-> "/analyze", body |-> JsonObject(NewsText, "detection", Absent),
     infer |-> InferRaises, remote |-> RemoteNoText],
    [route |-> "/analyze", body |-> JsonObject("", "detection", Absent),
     infer |-> InferRaises, remote |-> RemoteNoText],
    [route |-> "/analyze", body |-> JsonObject(NewsText, "credibility", Absent),
     infer |-> InferRaises, remote |-> RemoteText(ScoreExample7)],
    [route |-> "/analyze", body |-> JsonObject(NewsText, "credibility", Absent),
     infer |-> InferRaises, remote |-> RemoteRaises(RemoteMsg)],
    [route |-> "/chat", body |-> JsonObject(Absent, Absent, Question),
     infer |-> InferRaises, remote |-> RemoteText(FreeformExample)],
    [route |-> "/chat", body |-> JsonObject(Absent, Absent, Question),
     infer |-> InferRaises, remote |-> RemoteRaises(RemoteMsg)] }

InitConcurrent ==
  \E reqs \in [1..MaxRequests -> ConcurrentRequests] : Arrived(reqs)

SpecConcurrent == InitConcurrent /\ [][NextWeb]_vars

\* the handler of request r has returned
Done(r) == frames[r].pc = "done"

(***************************************************************************)
(* The page's script: koti.py:1035-1161.  A click starts a call of         *)
(* detectFakeNews or analyzeCredibility, which runs up to its fetch; the   *)
(* call goes on when the answer of the server is there, or when the fetch  *)
(* fails.  Calls may overlap: the buttons stay enabled.                    *)
(***************************************************************************)
\* clicks on the two buttons
MaxClicks == 2

\* a text of blanks only
BlankText == "   "

\* String.trim() on the texts of the model
Trim(t) == IF t = BlankText THEN "" ELSE t

\* Math.round(data.confidence * 100)
Percent(confidence) == (confidence * 100 + ProbScale \div 2) \div ProbScale

\* a call of fn waiting for the answer to request r
Invocation(fn, r) == [fn |-> fn, request |-> r, state |-> "await"]

Awaiting(i) ==
  i \in DOMAIN page.invocations /\ page.invocations[i].state = "await"

Settled(i) ==
  i \in DOMAIN page.invocations /\ page.invocations[i].state = "settled"

\* koti.py:1041, 1097
EmptyAlert == <<"Please enter some text to analyze">>

\* koti.py:1063, 1088, 1119, 1158
ErrorAlert(msg) == <<"Error: ", msg>>

\* error.message of a fetch that failed, and of response.json() on a body
\* that is no JSON
FetchFailedMsg == "Failed to fetch"
NotJsonMsg == "Unexpected token '<'"

\* koti.py:1040-1043, 1096-1099: the call returns after the alert
RejectEmpty ==
  [page EXCEPT !.clicks = @ + 1, !.alerts = Append(@, EmptyAlert)]

\* koti.py:1045-1049, 1101-1105, and the call left waiting for request r
ShowLoading(type, fn, r) ==
  [page EXCEPT !.clicks = @ + 1,
               !.currentAnalysisType = type,
               !.loading = TRUE,
               !.results = FALSE,
               !.detectionResult = "none",
               !.credibilityResult = "none",
               !.invocations = Append(@, Invocation(fn, r))]

\* fetch('/analyze', ...): the request arrives at the server
Fetch(req) ==
  /\ requests' = Append(requests, req)
  /\ frames' = Append(frames, NewFrame)
  /\ responses' = Append(responses, NoResponse)
  /\ calls' = Append(calls, NoCalls)

\* koti.py:1062-1065, 1118-1121: alert and return; the loading element is
\* left as it is
AlertError(i, msg) ==
  [page EXCEPT !.alerts = Append(@, ErrorAlert(msg)),
               !.invocations[i].state = "settled"]

\* koti.py:1087-1090, 1157-1160
Catch(i, msg) ==
  [page EXCEPT !.alerts = Append(@, ErrorAlert(msg)),
               !.loading = FALSE,
               !.invocations[i].state = "settled"]

\* koti.py:1067-1085
ShowDetection(i, data) ==
  [page EXCEPT !.resultLabel =
                 [textContent |-> data.label,
                  className |-> IF data.label = "FAKE NEWS" THEN "label fake"
                                ELSE "label real"],
               !.confidencePercent = Percent(data.confidence),
               !.timers = Append(@, Percent(data.confidence)),
               !.loading = FALSE,
               !.results = TRUE,
               !.detectionResult = "block",
               !.invocations[i].state = "settled"]

\* koti.py:1135-1141
ScoreClass(score) ==
  IF score >= 7 THEN "score-circle high"
  ELSE IF score >= 4 THEN "score-circle medium"
  ELSE "score-circle low"

\* koti.py:1123-1155
ShowCredibility(i, data) ==
  [page EXCEPT !.credibilityAnalysis = data.analysis,
               !.scoreValue = IF data.score # None THEN data.score ELSE @,
               !.scoreCircle = IF data.score # None THEN ScoreClass(data.score[1])
                               ELSE @,
               !.scoreContainer = IF data.score # None THEN "block" ELSE "none",
               !.loading = FALSE,
               !.results = TRUE,
               !.credibilityResult = "block",
               !.invocations[i].state = "settled"]

\* the outcomes of the server's calls for the request of a click
PageInferOutcomes == {InferRaises, InferLogits(<<0, 1>>)}

PageRemoteOutcomes ==
  {RemoteRaises(RemoteMsg), RemoteText(ScoreExample7),
   RemoteText(FreeformExample)}

\* koti.py:1037-1058: detectFakeNews() up to `await fetch`
DetectFakeNewsStart ==
  /\ page.clicks < MaxClicks
  /\ IF Trim(page.newsText) = ""
     THEN page' = RejectEmpty /\ UNCHANGED web
     ELSE /\ page' = ShowLoading("detection", "detectFakeNews", Len(requests) + 1)
          /\ \E i \in PageInferOutcomes :
               Fetch([route |-> "/analyze",
                      body |-> JsonObject(Trim(page.newsText), "detection", Absent),
                      infer |-> i,
                      remote |-> RemoteNoText])
  /\ UNCHANGED <<fmt, globals>>

\* koti.py:1060-1085: detectFakeNews() from the answer of the server on
DetectFakeNewsReceive ==
  \E i \in DOMAIN page.invocations :
    /\ page.invocations[i].fn = "detectFakeNews"
    /\ Awaiting(i)
    /\ Done(page.invocations[i].request)
    /\ LET data == responses[page.invocations[i].request]
       IN page' = IF data.kind = "html" THEN Catch(i, NotJsonMsg)
                  ELSE IF data.kind = "error" THEN AlertError(i, data.error)
                  ELSE ShowDetection(i, data)
    /\ UNCHANGED <<fmt, globals, web>>

\* koti.py:1087-1090: the fetch of detectFakeNews() fails
DetectFakeNewsCatch ==
  \E i \in DOMAIN page.invocations :
    /\ page.invocations[i].fn = "detectFakeNews"
    /\ Awaiting(i)
    /\ page' = Catch(i, FetchFailedMsg)
    /\ UNCHANGED <<fmt, globals, web>>

\* koti.py:1074-1076: the callback of setTimeout
ProgressTimer ==
  /\ page.timers # <<>>
  /\ page' = [page EXCEPT !.progressFill = Head(page.timers),
                          !.timers = Tail(page.timers)]
  /\ UNCHANGED <<fmt, globals, web>>

\* koti.py:1093-1114: analyzeCredibility() up to `await fetch`
AnalyzeCredibilityStart ==
  /\ page.clicks < MaxClicks
  /\ IF Trim(page.newsText) = ""
     THEN page' = RejectEmpty /\ UNCHANGED web
     ELSE /\ page' = ShowLoading("credibility", "analyzeCredibility",
                                 Len(requests) + 1)
          /\ \E o \in PageRemoteOutcomes :
               Fetch([route |-> "/analyze",
                      body |-> JsonObject(Trim(page.newsText), "credibility", Absent),
                      infer |-> InferRaises,
                      remote |-> o])
  /\ UNCHANGED <<fmt, globals>>

\* koti.py:1116-1155: analyzeCredibility() from the answer of the server on
AnalyzeCredibilityReceive ==
  \E i \in DOMAIN page.invocations :
    /\ page.invocations[i].fn = "analyzeCredibility"
    /\ Awaiting(i)
    /\ Done(page.invocations[i].request)
    /\ LET data == responses[page.invocations[i].request]
       IN page' = IF data.kind = "html" THEN Catch(i, NotJsonMsg)
                  ELSE IF data.kind = "error" THEN AlertError(i, data.error)
                  ELSE ShowCredibility(i, data)
    /\ UNCHANGED <<fmt, globals, web>>

\* koti.py:1157-1160: the fetch of analyzeCredibility() fails
AnalyzeCredibilityCatch ==
  \E i \in DOMAIN page.invocations :
    /\ page.invocations[i].fn = "analyzeCredibility"
    /\ Awaiting(i)
    /\ page' = Catch(i, FetchFailedMsg)
    /\ UNCHANGED <<fmt, globals, web>>

\* the page and the server's handling of /analyze
NextPage ==
  \/ DetectFakeNewsStart
  \/ DetectFakeNewsReceive
  \/ DetectFakeNewsCatch
  \/ ProgressTimer
  \/ AnalyzeCredibilityStart
  \/ AnalyzeCredibilityReceive
  \/ AnalyzeCredibilityCatch
  \/ AnalyzeBegin
  \/ Predict
  \/ CredibilityGenerate
  \/ CredibilityReturn

\* the page is loaded and the user has typed a text, empty, blank or not
InitPage ==
  /\ ProcessStarted
  /\ FormatterIdle
  /\ NoRequests
  /\ \E t \in {"", BlankText, NewsText} :
       page = [PageLoaded EXCEPT !.newsText = t]

SpecPage == InitPage /\ [][NextPage]_vars

\* a step of CredibilityReturn is possible: the action's guard, and every
\* step of it changes frames
CredibilityReturnEnabled ==
  \E r \in DOMAIN requests : frames[r].pc = "credibility_generated"

\* WF_vars(CredibilityReturn), with ENABLED <<CredibilityReturn>>_vars
\* written as the guard
CredibilityReturnFair ==
  []<>(~CredibilityReturnEnabled) \/ []<><<CredibilityReturn>>_vars

\* the server goes on with every request it has, and the script goes on
\* when its answer is there; a failure of the fetch may or may not happen,
\* and so may a further click
SpecPageFair ==
  /\ SpecPage
  /\ WF_vars(AnalyzeBegin)
  /\ WF_vars(Predict)
  /\ WF_vars(CredibilityGenerate)
  /\ CredibilityReturnFair
  /\ WF_vars(DetectFakeNewsReceive)
  /\ WF_vars(AnalyzeCredibilityReceive)
  /\ WF_vars(ProgressTimer)

(***************************************************************************)
(* Properties                                                              *)
(***************************************************************************)
IsBlank(s) == \A k \in 1..Len(s) : s[k] \in Whitespace

Returned == pc = "done"

\* C1 (as claimed): format_gemini_response raises for no input (no step
\* leaves an exception, and every step before the return has a successor) and
\* returns a pair (markup, optional integer); for the empty text and for a
\* text of whitespace only the markup is empty and there is no score.
C1_NeverRaises ==
  /\ exc = NoExc
  /\ pc \in {"score", "split", "render", "done"}
  /\ sec_idx \in 1..(Len(sections) + 1)
  /\ Returned =>
       /\ html_output \in Seq({html_output[k] : k \in 1..Len(html_output)})
       /\ credibility_score = None
            \/ (Len(credibility_score) = 1 /\ credibility_score[1] \in Nat)
       /\ IsBlank(raw_text) => html_output = <<>> /\ credibility_score = None

\* a label occupies text[i..e-1]
LabelSpan(text, i, e) ==
  \/ /\ Lower(CharAt(text, i)) = "credibility score"
     /\ e = i + 1
  \/ /\ Lower(CharAt(text, i)) = "overall"
     /\ CharAt(text, i + 1) = SP
     /\ Lower(CharAt(text, i + 2)) = "credibility score"
     /\ e = i + 3

\* text[q..k] is one or more digits and "/10" follows
ScoreToken(text, q, k) ==
  /\ 1 <= q
  /\ q <= k
  /\ k + 3 <= Len(text)
  /\ \A m \in q..k : text[m] \in Digit
  /\ text[k + 1] = "/"
  /\ text[k + 2] = "1"
  /\ text[k + 3] = "0"

\* the occurrences <<i, q, k>> of the score phrase: a label at i, then text
\* of the same line, then the token N/10 with N = text[q..k]
Occurrences(text) ==
  {o \in (1..Len(text)) \X (1..Len(text)) \X (1..Len(text)) :
     /\ ScoreToken(text, o[2], o[3])
     /\ \E e \in (o[1] + 1)..o[2] :
          /\ LabelSpan(text, o[1], e)
          /\ \A m \in e..(o[2] - 1) : text[m] # NL}

\* o is before o2 in the order of the scan: leftmost label, then the
\* nearest token, then the longest run of digits
Before(o, o2) ==
  \/ o[1] < o2[1]
  \/ o[1] = o2[1] /\ o[2] < o2[2]
  \/ o[1] = o2[1] /\ o[2] = o2[2] /\ o[3] >= o2[3]

\* the base-ten number written by the digits text[q..k], by its digits
RECURSIVE Pow10(_)
Pow10(n) == IF n = 0 THEN 1 ELSE 10 * Pow10(n - 1)

RECURSIVE SumDigits(_, _, _)
SumDigits(text, q, k) ==
  IF q > k THEN 0
  ELSE DigitVal(text[q]) * Pow10(k - q) + SumDigits(text, q + 1, k)

\* C2: the score returned is the integer N of the first occurrence of the
\* label (either form, any case) followed by N/10, not clamped to 0..10, and
\* no value when there is no occurrence; "15/10" gives 15.
C2_FirstScore ==
  Returned =>
    /\ LET occ == Occurrences(raw_text)
       IN IF occ = {}
          THEN credibility_score = None
          ELSE \E o \in occ :
                 /\ \A o2 \in occ : Before(o, o2)
                 /\ credibility_score = Some(SumDigits(raw_text, o[2], o[3]))
    /\ raw_text = ScoreExample15 => credibility_score = Some(15)
    /\ raw_text = ScoreExample7 => credibility_score = Some(7)
    /\ raw_text = FreeformExample => credibility_score = None

\* two labels, the first one followed by a number above ten
C2_Witness ==
  /\ Returned
  /\ credibility_score # None
  /\ credibility_score[1] > 10
  /\ Cardinality({o[1] : o \in Occurrences(raw_text)}) >= 2

\* C3 (as claimed): a label followed anywhere later by N/10, also on a later
\* line, gives a score.
C3_AcrossLines ==
  Returned =>
    ((\E i, e, q, k \in 1..Len(raw_text) :
        /\ LabelSpan(raw_text, i, e)
        /\ e <= q
        /\ ScoreToken(raw_text, q, k))
     => credibility_score # None)

Prefix(s, n) == Slice(s, 1, n)

\* C4: when a score phrase is matched in a text, the score of the text with
\* anything appended after it is the same: for every prefix of the raw text
\* that has a score, the raw text has that score.
C4_StableUnderAppend ==
  Returned =>
    \A n \in 0..Len(raw_text) :
      ExtractScoreValue(Prefix(raw_text, n)).value # None
        => credibility_score = ExtractScoreValue(Prefix(raw_text, n)).value

\* a matched phrase followed by appended text that holds another N/10
C4_Witness ==
  /\ Returned
  /\ \E n \in 1..Len(raw_text) :
       /\ ExtractScoreValue(Prefix(raw_text, n)).value # None
       /\ \E q, k \in (n + 1)..Len(raw_text) : ScoreToken(raw_text, q, k)
  /\ credibility_score # None

\* a heading marker begins at p: one or more digits, ".", one or more
\* whitespace characters and "**"; or one to three "#" and a whitespace
\* character
LineMarker(text, p) ==
  \/ \E d \in p..Len(text), w \in (p + 2)..Len(text) :
       /\ w >= d + 2
       /\ \A m \in p..d : text[m] \in Digit
       /\ text[d + 1] = "."
       /\ \A m \in (d + 2)..w : text[m] \in Whitespace
       /\ CharAt(text, w + 1) = "*"
       /\ CharAt(text, w + 2) = "*"
  \/ \E n \in 1..3 :
       /\ \A m \in p..(p + n - 1) : CharAt(text, m) = "#"
       /\ CharAt(text, p + n) \in Whitespace

\* the line breaks after which a line begins with a heading marker
CutPoints(text) ==
  {j \in 1..Len(text) : text[j] = NL /\ LineMarker(text, j + 1)}

NthCut(cuts, n) == CHOOSE c \in cuts : Cardinality({x \in cuts : x < c}) = n - 1

\* the k-th piece of the text cut at `cuts`
Piece(text, cuts, k) ==
  Slice(text,
        IF k = 1 THEN 1 ELSE NthCut(cuts, k - 1) + 1,
        IF k = Cardinality(cuts) + 1 THEN Len(text) ELSE NthCut(cuts, k) - 1)

SectionsKnown == pc \in {"render", "done"}

\* a heading marker that does not begin a line
MidLineMarker(text) ==
  \E p \in 2..Len(text) : text[p - 1] # NL /\ LineMarker(text, p)

\* C5: the text is cut at every line break after which a line begins with a
\* heading marker and nowhere else; the text before the first cut is the
\* first candidate; blank candidates add no markup.
C5_SplitAtMarkers ==
  SectionsKnown =>
    LET cuts == CutPoints(raw_text)
    IN /\ Len(sections) = Cardinality(cuts) + 1
       /\ \A k \in 1..Len(sections) : sections[k] = Piece(raw_text, cuts, k)
       /\ (\A k \in 1..(sec_idx - 1) : IsBlank(sections[k])) => formatted = <<>>
       /\ (Returned /\ \A k \in 1..Len(sections) : IsBlank(sections[k]))
            => html_output = <<>>

\* a blank leading candidate, a cut, and a marker inside a line that is no cut
C5_Witness ==
  /\ Returned
  /\ Len(sections) >= 2
  /\ sections[1] # <<>>
  /\ IsBlank(sections[1])
  /\ MidLineMarker(raw_text)
  /\ html_output # <<>>

Words == {"A", "B", "C", "T", "x", "y", "a", "b", "i", "j", "k"}

IsWord(c) == c \in Words

\* the elements of the first n candidates, one candidate after the other
RECURSIVE RenderedUpTo(_, _)
RenderedUpTo(secs, n) ==
  IF n = 0 THEN <<>> ELSE RenderedUpTo(secs, n - 1) \o RenderSection(secs[n])

TwoSectionsExample ==
  <<"1", ".", SP, "*", "*", "A", "*", "*", ":", SP, "x", NL,
    "2", ".", SP, "*", "*", "B", "*", "*", ":", SP, "y">>

TwoSectionsMarkup ==
  <<DivOpen, H3Open, SpanOpen, "1", SpanClose, "A", H3Close,
    POpen, "x", PClose, DivClose,
    DivOpen, H3Open, SpanOpen, "2", SpanClose, "B", H3Close,
    POpen, "y", PClose, DivClose>>

\* C6: the markup of the candidates is in the order of the candidates: after
\* each iteration `formatted` is the elements of the candidates rendered so
\* far, each candidate's after those of the candidates before it; the words
\* of the markup are the words of the text in the same order; the example of
\* two sections gives A's container and then B's.
C6_OrderPreserved ==
  /\ SectionsKnown =>
       formatted = RenderedUpTo(sections, sec_idx - 1)
  /\ Returned =>
       /\ html_output = Join(RenderedUpTo(sections, Len(sections)))
       /\ SelectSeq(html_output, IsWord) = SelectSeq(raw_text, IsWord)
       /\ raw_text = TwoSectionsExample => html_output = TwoSectionsMarkup

\* three candidates with markup each
C6_Witness ==
  /\ Returned
  /\ Len(sections) = 3
  /\ \A k \in 1..3 : RenderSection(sections[k]) # <<>>
  /\ RenderSection(sections[1]) # RenderSection(sections[2])

\* the positions <<d, w, c>> at which a candidate has the shape
\* <digits>. **<title>**: digits sec[1..d], ".", whitespace sec[d+2..w],
\* "**", a title of at least one character, "**" at c
ShapeDigits(sec) ==
  {d \in 1..Len(sec) :
     /\ \A m \in 1..d : sec[m] \in Digit
     /\ CharAt(sec, d + 1) = "."}

ShapeBlanks(sec, d) ==
  {w \in (d + 2)..Len(sec) :
     /\ \A m \in (d + 2)..w : sec[m] \in Whitespace
     /\ CharAt(sec, w + 1) = "*"
     /\ CharAt(sec, w + 2) = "*"}

ShapeCloses(sec, w) ==
  {c \in (w + 4)..Len(sec) : sec[c] = "*" /\ CharAt(sec, c + 1) = "*"}

Shapes(sec) ==
  UNION { UNION { {<<d, w, c>> : c \in ShapeCloses(sec, w)}
                  : w \in ShapeBlanks(sec, d) }
          : d \in ShapeDigits(sec) }

HeadingShape(sec) == Shapes(sec) # {}

\* the title ends at the first "**" that can close it
FirstShape(sec) == CHOOSE t \in Shapes(sec) : \A u \in Shapes(sec) : t[3] <= u[3]

Count(seq, tok) == Cardinality({k \in 1..Len(seq) : seq[k] = tok})

HasToken(seq, toks) == \E k \in 1..Len(seq) : seq[k] \in toks

\* the elements one iteration of the loop over sections has appended
Appended == Slice(formatted', Len(formatted) + 1, Len(formatted'))

\* one iteration renders a candidate of the shape as a container that begins
\* with the title element, and any other candidate as one paragraph
C7_Step ==
  (pc = "render" /\ pc' = "render") =>
    LET sec == sections[sec_idx]
        out == Appended
    IN IF IsBlank(sec) THEN out = <<>>
       ELSE IF HeadingShape(sec)
       THEN LET t == FirstShape(sec)
            IN /\ Len(out) >= 3
               /\ out[1] = <<DivOpen>>
               /\ out[2] = <<H3Open, SpanOpen>> \o Slice(sec, 1, t[1])
                             \o <<SpanClose>> \o Slice(sec, t[2] + 3, t[3] - 1)
                             \o <<H3Close>>
               /\ out[Len(out)] = <<DivClose>>
               /\ \A k \in 3..(Len(out) - 1) :
                    ~HasToken(out[k], {DivOpen, DivClose, H3Open, H3Close})
       ELSE /\ Len(out) = 1
            /\ Head(out[1]) = POpen
            /\ out[1][Len(out[1])] = PClose
            /\ Count(out[1], POpen) = 1
            /\ ~HasToken(out[1], {DivOpen, DivClose, H3Open, H3Close,
                                   SpanOpen, UlOpen, LiOpen})

\* C7: a candidate of the shape <digits>. **<title>**[:]<rest> is rendered
\* as one container whose first child is the title element with the ordinal
\* and the title, then the body; any other candidate is rendered as
\* paragraph content with no container and no title; the freeform example
\* gives exactly one paragraph and no score.
C7_ContainerOrParagraph ==
  /\ [][C7_Step]_vars
  /\ [](Returned /\ raw_text = FreeformExample
          => /\ html_output = <<POpen>> \o FreeformExample \o <<PClose>>
             /\ credibility_score = None)

\* a text with a candidate of the shape and a candidate without it, rendered
C7_Witness ==
  /\ Returned
  /\ Len(sections) >= 2
  /\ \E k \in 1..Len(sections) : HeadingShape(sections[k])
  /\ \E k \in 1..Len(sections) :
       ~HeadingShape(sections[k]) /\ ~IsBlank(sections[k])
  /\ Count(html_output, DivOpen) >= 1
  /\ Count(html_output, POpen) >= 1

\* the text is one candidate that has not the heading shape
OneUnmatched ==
  /\ Returned
  /\ Len(sections) = 1
  /\ ~IsBlank(raw_text)
  /\ ~HeadingShape(raw_text)

\* C8 (as claimed): a candidate without the heading shape goes through the
\* list-or-paragraph steps of a matched body: with a bullet line it has a
\* list with items, without one its blocks between blank lines are separate
\* paragraphs.
C8_SharedBody ==
  OneUnmatched =>
    /\ HasBulletIndicator(Strip(raw_text))
         => Count(html_output, UlOpen) >= 1 /\ Count(html_output, LiOpen) >= 1
    /\ (~HasBulletIndicator(Strip(raw_text))
          /\ Contains(Strip(raw_text), <<NL, NL>>))
         => Count(html_output, POpen) >= 2

\* C8 (amended): a candidate without the heading shape is rendered as exactly
\* one paragraph holding its stripped text (emphasis converted), bullet
\* lines and blank lines included; it has no list and is not split.
C8_UnmatchedOneParagraph ==
  OneUnmatched =>
    /\ Len(html_output) >= 3
    /\ Head(html_output) = POpen
    /\ html_output[Len(html_output)] = PClose
    /\ Count(html_output, POpen) = 1
    /\ Count(html_output, PClose) = 1
    /\ ~HasToken(html_output, {UlOpen, UlClose, LiOpen, LiClose, DivOpen})
    /\ ~HasToken(raw_text, {"*"})
         => html_output = <<POpen>> \o Strip(raw_text) \o <<PClose>>

\* an unmatched candidate with a bullet line and a blank line
C8_Witness ==
  /\ OneUnmatched
  /\ HasBulletIndicator(Strip(raw_text))
  /\ Contains(Strip(raw_text), <<NL, NL>>)
  /\ Count(html_output, POpen) = 1

\* the text is the heading line and a body
OneMatched ==
  /\ Returned
  /\ Len(sections) = 1
  /\ StartsWith(raw_text, HeadingLine)

\* the lines of the body, stripped
BodyText == Strip(Slice(raw_text, Len(HeadingLine) + 1, Len(raw_text)))

RECURSIVE StripAll(_)
StripAll(lines) ==
  IF lines = <<>> THEN <<>> ELSE <<Strip(Head(lines))>> \o StripAll(Tail(lines))

BodyLines == StripAll(StrSplit(BodyText, <<NL>>))

\* a line that begins with the bullet literal or with a hyphen and a blank
MarkedLine(line) ==
  \/ StartsWith(line, BulletGlyph)
  \/ StartsWith(line, <<"-", SP>>)

\* C9 (as claimed): blank lines do not close a list: when every line of the
\* body that is not blank is a bullet line, all items are in one list.
C9_BlankKeepsList ==
  (/\ OneMatched
   /\ \E k \in 1..Len(BodyLines) : MarkedLine(BodyLines[k])
   /\ \A k \in 1..Len(BodyLines) :
        BodyLines[k] = <<>> \/ MarkedLine(BodyLines[k]))
  => Count(html_output, UlOpen) = 1

\* the body has a bullet indicator: the bullet literal anywhere, or a line
\* that begins (after whitespace) with a hyphen and a whitespace character
BulletMode(content) ==
  \/ \E p \in 1..Len(content) : OccursAt(content, p, BulletGlyph)
  \/ \E p \in 1..Len(content), h \in 1..Len(content) :
       /\ p <= h
       /\ p = 1 \/ content[p - 1] = NL
       /\ \A m \in p..(h - 1) : content[m] \in Whitespace
       /\ content[h] = "-"
       /\ CharAt(content, h + 1) \in Whitespace

\* the text of a marked line after its marker
ItemText(line) ==
  IF StartsWith(line, BulletGlyph)
  THEN Strip(Slice(line, Len(BulletGlyph) + 1, Len(line)))
  ELSE Strip(Slice(line, 2, Len(line)))

\* one element per line that is not blank, in the order of the lines: a list
\* item for a marked line, a paragraph for any other
RECURSIVE ExpectedElements(_)
ExpectedElements(lines) ==
  IF lines = <<>> THEN <<>>
  ELSE (IF Head(lines) = <<>> THEN <<>>
        ELSE IF MarkedLine(Head(lines))
        THEN (IF ItemText(Head(lines)) = <<>> THEN <<>>
              ELSE << <<LiOpen>> \o ItemText(Head(lines)) \o <<LiClose>> >>)
        ELSE << <<POpen>> \o Head(lines) \o <<PClose>> >>)
       \o ExpectedElements(Tail(lines))

\* every line that begins with a hyphen begins with a hyphen and a blank
PlainMarkers(lines) ==
  \A k \in 1..Len(lines) :
    StartsWith(lines[k], <<"-">>) => StartsWith(lines[k], <<"-", SP>>)

IsListTag(e) == e = <<UlOpen>> \/ e = <<UlClose>>
IsNotListTag(e) == ~IsListTag(e)

\* items only inside a list, paragraphs only outside, no list inside a
\* list, and no list open after the last element
RECURSIVE ListDiscipline(_, _)
ListDiscipline(elems, open) ==
  IF elems = <<>> THEN ~open
  ELSE LET e == Head(elems)
       IN IF e = <<UlOpen>> THEN ~open /\ ListDiscipline(Tail(elems), TRUE)
          ELSE IF e = <<UlClose>> THEN open /\ ListDiscipline(Tail(elems), FALSE)
          ELSE IF Head(e) = LiOpen THEN open /\ ListDiscipline(Tail(elems), open)
          ELSE IF Head(e) = POpen THEN ~open /\ ListDiscipline(Tail(elems), open)
          ELSE FALSE

\* the elements of the body of the one matched section
BodyElements == Slice(formatted, 3, Len(formatted) - 1)

IsContent(c) == c \in Words \cup Digit

MixedExample ==
  HeadingLine \o <<NL, "a", NL, "-", SP, "i", NL, "-", SP, "j", NL, "b">>

MixedMarkup ==
  <<DivOpen, H3Open, SpanOpen, "1", SpanClose, "T", H3Close,
    POpen, "a", PClose,
    UlOpen, LiOpen, "i", LiClose, LiOpen, "j", LiClose, UlClose,
    POpen, "b", PClose, DivClose>>

\* C10: in a section body with bullet lines, paragraphs and list items come
\* out in the order of the lines, the list is closed before a paragraph and
\* opened again for later items, and a list open after the last line is
\* closed; the body para1 / - item1 / - item2 / para2 gives a paragraph, one
\* list of two items and a paragraph.
C10_MixedOrder ==
  /\ (OneMatched /\ BulletMode(BodyText)) =>
       /\ ListDiscipline(BodyElements, FALSE)
       /\ SelectSeq(Join(BodyElements), IsContent) = SelectSeq(BodyText, IsContent)
       /\ PlainMarkers(BodyLines) =>
            SelectSeq(BodyElements, IsNotListTag) = ExpectedElements(BodyLines)
  /\ (Returned /\ raw_text = MixedExample) => html_output = MixedMarkup

\* a paragraph, a list, a paragraph, and a list that the end of the body closes
C10_Witness ==
  /\ OneMatched
  /\ BulletMode(BodyText)
  /\ Len(BodyElements) >= 7
  /\ Head(BodyElements[1]) = POpen
  /\ BodyElements[2] = <<UlOpen>>
  /\ Count(html_output, UlOpen) = 2
  /\ BodyElements[Len(BodyElements)] = <<UlClose>>

\* the text begins with a double marker, at least one character and, on the
\* same line, a second double marker
StartsDelimited(t) ==
  \E c \in 4..(Len(t) - 1) :
    /\ t[1] = "*" /\ t[2] = "*"
    /\ t[c] = "*" /\ t[c + 1] = "*"
    /\ \A m \in 3..(c - 1) : t[m] # NL

BoldMarkup ==
  <<StrongOpen, "bold", SP, EmOpen, "and", EmClose, SP, "more", StrongClose>>

HeadingMarkup ==
  <<DivOpen, H3Open, SpanOpen, "1", SpanClose, "T", H3Close>>

\* C11: the double-marker conversion runs before the single-marker one, in
\* the body of a matched section and in an unmatched candidate: a text that
\* begins with a double-marker pair begins with a strong element (its opening
\* markers are never taken for an em), and '**bold *and* more**' becomes one
\* strong element with one em element inside.
C11_StrongBeforeEm ==
  /\ (OneUnmatched /\ StartsDelimited(Strip(raw_text)))
       => html_output[1] = POpen /\ html_output[2] = StrongOpen
  /\ (OneMatched /\ StartsDelimited(BodyText))
       => /\ Slice(html_output, 1, 8) = HeadingMarkup \o <<POpen>>
          /\ html_output[9] = StrongOpen
  /\ (Returned /\ raw_text = BoldExample)
       => html_output = <<POpen>> \o BoldMarkup \o <<PClose>>
  /\ (Returned /\ raw_text = HeadingLine \o <<SP>> \o BoldExample)
       => html_output
            = HeadingMarkup \o <<POpen>> \o BoldMarkup \o <<PClose, DivClose>>

\* the example in the body of a matched section
C11_Witness ==
  /\ Returned
  /\ raw_text = HeadingLine \o <<SP>> \o BoldExample
  /\ Count(html_output, StrongOpen) = 1
  /\ Count(html_output, EmOpen) = 1

\* the blocks of lines between empty lines (an empty line is two line
\* breaks in a row), each block its lines joined by line breaks; `cur` is
\* the block being read
RECURSIVE BlocksOf(_, _)
BlocksOf(lines, cur) ==
  IF lines = <<>> THEN <<JoinLines(cur)>>
  ELSE IF Head(lines) = <<>>
       THEN <<JoinLines(cur)>> \o BlocksOf(Tail(lines), <<>>)
       ELSE BlocksOf(Tail(lines), Append(cur, Head(lines)))

\* one paragraph per block that is not blank, in the order of the blocks
RECURSIVE ExpectedParagraphs(_)
ExpectedParagraphs(blocks) ==
  IF blocks = <<>> THEN <<>>
  ELSE (IF IsBlank(Head(blocks)) THEN <<>>
        ELSE << <<POpen>> \o Strip(Head(blocks)) \o <<PClose>> >>)
       \o ExpectedParagraphs(Tail(blocks))

\* C12: the body of a matched section without bullet indicator is cut at its
\* empty lines, every block that is not blank is exactly one paragraph
\* element, in the order of the blocks, and lines with one line break between
\* them are in the same paragraph.
C12_ParagraphBlocks ==
  (OneMatched /\ ~BulletMode(BodyText)) =>
    /\ BodyElements
         = ExpectedParagraphs(BlocksOf(StrSplit(BodyText, <<NL>>), <<>>))
    /\ ~HasToken(html_output, {UlOpen, UlClose, LiOpen, LiClose})
    /\ \A k \in 1..(Len(BodyText) - 1) :
         (BodyText[k] = NL /\ CharAt(BodyText, k - 1) = "a"
            /\ BodyText[k + 1] = "b")
           => Contains(html_output, <<"a", NL, "b">>)

\* two paragraphs, the first one of two lines
C12_Witness ==
  /\ OneMatched
  /\ ~BulletMode(BodyText)
  /\ BodyText = <<"a", NL, "b", NL, NL, "a">>
  /\ Count(html_output, POpen) = 2
  /\ Contains(html_output, <<POpen, "a", NL, "b", PClose>>)

\* C13 (as claimed): in list rendering a line is a list item only when it
\* begins with the bullet literal or with a hyphen and a blank; a line that
\* begins with a hyphen and no blank after it is a paragraph of its own.
C13_HyphenNeedsSpace ==
  (OneMatched /\ BulletMode(BodyText)) =>
    /\ \A k \in 1..Len(BodyLines) :
         (StartsWith(BodyLines[k], <<"-">>) /\ ~MarkedLine(BodyLines[k]))
           => \E m \in 1..Len(BodyElements) :
                BodyElements[m] = <<POpen>> \o BodyLines[k] \o <<PClose>>
    /\ \A m \in 1..Len(BodyElements) :
         Head(BodyElements[m]) = LiOpen
           => \E k \in 1..Len(BodyLines) :
                /\ MarkedLine(BodyLines[k])
                /\ BodyElements[m]
                     = <<LiOpen>> \o ItemText(BodyLines[k]) \o <<LiClose>>

\* the tags of `html` from position k on are balanced, given whether a
\* container and a list are open: no list in a list, items only in a list,
\* paragraphs only outside one, a container closed once and after its
\* lists, nothing open at the end
RECURSIVE Balanced(_, _, _, _)
Balanced(html, k, div, ul) ==
  IF k > Len(html) THEN ~div /\ ~ul
  ELSE IF html[k] = DivOpen THEN ~div /\ ~ul /\ Balanced(html, k + 1, TRUE, ul)
  ELSE IF html[k] = DivClose THEN div /\ ~ul /\ Balanced(html, k + 1, FALSE, ul)
  ELSE IF html[k] = UlOpen THEN ~ul /\ Balanced(html, k + 1, div, TRUE)
  ELSE IF html[k] = UlClose THEN ul /\ Balanced(html, k + 1, div, FALSE)
  ELSE IF html[k] = LiOpen THEN ul /\ Balanced(html, k + 1, div, ul)
  ELSE IF html[k] = POpen THEN ~ul /\ Balanced(html, k + 1, div, ul)
  ELSE Balanced(html, k + 1, div, ul)

\* C20 (as claimed): for every input the markup returned is balanced: a list
\* is closed before the next paragraph, before the closing tag of its section
\* and before another list opens, items are only in a list, paragraphs only
\* outside one, and a container is closed once before the next candidate.
C20_Balanced == Returned => Balanced(html_output, 1, FALSE, FALSE)

\* the remote call made for request r has failed
RemoteFailed(r) == frames[r].remote_result.kind = "raises"

\* C14: a failure of the remote call leaves neither analyze_media_credibility
\* nor chat_with_ai as an exception: the credibility path returns an error
\* paragraph with the error text and no score, the chat path an apology with
\* the error text, and the route answers 200 with a body without error field.
C14_RemoteFailureDegrades ==
  \A r \in DOMAIN requests :
    RemoteFailed(r) =>
      /\ analyze_media_credibility(frames[r].remote_result).raises = NoExc
      /\ chat_with_ai(frames[r].remote_result).raises = NoExc
      /\ Done(r) =>
           /\ responses[r].status = 200
           /\ responses[r].kind # "error"
           /\ responses[r].error = ""
           /\ requests[r].route = "/analyze" =>
                /\ responses[r].kind = "credibility"
                /\ Head(responses[r].analysis) = "<p class='error'>"
                /\ HasToken(responses[r].analysis, {requests[r].remote.error})
                /\ responses[r].score = None
           /\ requests[r].route = "/chat" =>
                /\ responses[r].kind = "chat"
                /\ responses[r].reply
                     = Some(<<"Sorry, I encountered an error: ",
                              requests[r].remote.error>>)

\* a credibility request answered after its remote call failed
C14_Witness ==
  \E r \in DOMAIN requests :
    /\ Done(r)
    /\ RemoteFailed(r)
    /\ requests[r].route = "/analyze"
    /\ responses[r].status = 200
    /\ responses[r].kind = "credibility"

\* the body of request r is an object whose required text (the key 'text'
\* of /analyze, 'message' of /chat) is missing or empty
RequiredTextMissing(r) ==
  /\ requests[r].body.json = "object"
  /\ \/ requests[r].route = "/analyze" /\ requests[r].body.text \in {Absent, ""}
     \/ requests[r].route = "/chat" /\ requests[r].body.message \in {Absent, ""}

\* C15: a request whose required text is missing or empty is answered with
\* a 4xx status and a JSON error message, and neither the classification
\* model nor the remote API is called for it.
C15_MissingTextRejected ==
  \A r \in DOMAIN requests :
    RequiredTextMissing(r) =>
      /\ calls[r].model = 0
      /\ calls[r].remote = 0
      /\ frames[r].pc \in {"recv", "done"}
      /\ Done(r) =>
           /\ responses[r].status \in 400..499
           /\ responses[r].kind = "error"
           /\ responses[r].error # ""

\* an /analyze request with the empty text, rejected
C15_Witness ==
  \E r \in DOMAIN requests :
    /\ Done(r)
    /\ requests[r].route = "/analyze"
    /\ requests[r].body.json = "object"
    /\ requests[r].body.text = ""
    /\ responses[r].status = 400

\* the code run by the handler of request r raises: the body is rejected by
\* get_json, or is no object, or model inference fails
HandlerRaises(r) ==
  \/ requests[r].body.json \in {"invalid", "non-object"}
  \/ /\ requests[r].route = "/analyze"
     /\ requests[r].body.json = "object"
     /\ requests[r].body.text \notin {Absent, ""}
     /\ requests[r].body.type \in {Absent, "detection"}
     /\ requests[r].infer.raises

\* C16: when the code run by the handler of /analyze or /chat raises, the
\* answer is a JSON object with an error field and a status that is not 2xx.
C16_RaiseGivesError ==
  \A r \in DOMAIN requests :
    (Done(r) /\ HandlerRaises(r)) =>
      /\ responses[r].kind = "error"
      /\ responses[r].error # ""
      /\ responses[r].status \notin 200..299
      /\ responses[r].status >= 400

\* a detection request whose inference failed
C16_Witness ==
  \E r \in DOMAIN requests :
    /\ Done(r)
    /\ requests[r].route = "/analyze"
    /\ requests[r].body.json = "object"
    /\ requests[r].infer.raises
    /\ calls[r].model = 1
    /\ responses[r].status = 500

\* no request makes a remote call after one remote call of its own
C17_Step ==
  \A r \in DOMAIN requests :
    calls[r].remote >= 1 => calls'[r].remote = calls[r].remote

\* C17: one request makes at most one remote call, and after a failed call
\* its failure result is returned with no further remote call.
C17_NoRetries ==
  /\ [][C17_Step]_vars
  /\ [](\A r \in DOMAIN requests :
          /\ calls[r].remote <= 1
          /\ RemoteFailed(r) => calls[r].remote = 1
          /\ (Done(r) /\ RemoteFailed(r)) =>
               /\ responses[r].status = 200
               /\ requests[r].route = "/analyze"
                    => responses[r].analysis
                         = ErrorParagraph(requests[r].remote.error)
               /\ requests[r].route = "/chat"
                    => responses[r].reply
                         = Some(Apology(requests[r].remote.error)))

\* a chat request answered after its one remote call failed
C17_Witness ==
  \E r \in DOMAIN requests :
    /\ Done(r)
    /\ RemoteFailed(r)
    /\ requests[r].route = "/chat"
    /\ calls[r].remote = 1

\* C18: the label is REAL NEWS exactly when the probability of the real
\* class is greater than that of the fake class (which is exactly when its
\* logit is greater), FAKE NEWS otherwise, also on a tie, and the confidence
\* is the greater of the two probabilities, that of the label reported.
C18_LabelRule ==
  \A r \in DOMAIN requests :
    (Done(r) /\ responses[r].kind = "detection") =>
      LET logits == requests[r].infer.logits
          fake_prob == Softmax(logits)[1]
          real_prob == Softmax(logits)[2]
      IN /\ responses[r].label \in {"REAL NEWS", "FAKE NEWS"}
         /\ responses[r].label = "REAL NEWS" <=> real_prob > fake_prob
         /\ responses[r].label = "REAL NEWS" <=> logits[2] > logits[1]
         /\ real_prob = fake_prob => responses[r].label = "FAKE NEWS"
         /\ responses[r].confidence >= fake_prob
         /\ responses[r].confidence >= real_prob
         /\ responses[r].confidence \in {fake_prob, real_prob}
         /\ responses[r].confidence
              = (IF responses[r].label = "REAL NEWS" THEN real_prob ELSE fake_prob)
         /\ responses[r].confidence \in 0..ProbScale

\* a tie of the two probabilities, reported as FAKE NEWS
C18_Witness ==
  \E r \in DOMAIN requests :
    /\ Done(r)
    /\ responses[r].kind = "detection"
    /\ requests[r].infer.logits[1] = requests[r].infer.logits[2]
    /\ responses[r].label = "FAKE NEWS"
    /\ responses[r].confidence = ProbScale \div 2

\* the response to a request handled alone: the handler as one function of
\* the request and of the outcomes of its own calls
HandledAlone(req) ==
  IF req.body.json = "invalid" THEN ErrorResponse(BadRequestMsg, 500)
  ELSE IF req.body.json = "non-object" THEN ErrorResponse(AttributeErrorMsg, 500)
  ELSE IF req.route = "/chat"
  THEN (IF req.body.message \in {Absent, ""}
        THEN ErrorResponse("No message provided", 400)
        ELSE ChatResponse(chat_with_ai(req.remote)))
  ELSE IF req.body.text \in {Absent, ""}
  THEN ErrorResponse("No text provided", 400)
  ELSE IF req.body.type \in {Absent, "detection"}
  THEN (IF req.infer.raises THEN ErrorResponse(InferenceMsg, 500)
        ELSE DetectionResponse(predict_fake_news(req.infer.logits)))
  ELSE IF req.body.type = "credibility"
  THEN CredibilityResponse(analyze_media_credibility(req.remote))
  ELSE NoViewResponse

\* C19: the handlers read but never write the process-wide model, tokenizer
\* and client, and under every interleaving of the requests in flight each
\* request gets the response it would get handled alone.
C19_Independent ==
  /\ [][globals' = globals /\ requests' = requests]_vars
  /\ [](ProcessStarted)
  /\ [](\A r \in DOMAIN requests :
          /\ Done(r) => responses[r] = HandledAlone(requests[r])
          /\ ~Done(r) => responses[r] = NoResponse)

\* a credibility request answered while a chat request is between its
\* remote call and its answer
C19_Witness ==
  /\ Len(requests) >= 2
  /\ requests[1].route = "/analyze"
  /\ Done(1)
  /\ responses[1].kind = "credibility"
  /\ requests[2].route = "/chat"
  /\ frames[2].pc = "chat_generated"

\* C21 (as claimed): every /analyze request with a text that is not empty
\* is answered by the handler with JSON on every path, whatever the value of
\* 'type': a result object or an object with an error field.
C21_AlwaysJson ==
  \A r \in DOMAIN requests :
    (/\ Done(r)
     /\ requests[r].route = "/analyze"
     /\ requests[r].body.json = "object"
     /\ requests[r].body.text \notin {Absent, ""})
    => responses[r].kind \in {"detection", "credibility", "error"}

\* C22 (as claimed): every call of detectFakeNews or analyzeCredibility that
\* has sent its request is followed, once the answer is received (a result,
\* a JSON body with an error field, or a failure of the fetch), by the
\* loading indicator being inactive.
C22_LoadingDeactivated ==
  \A i \in 1..MaxClicks : Awaiting(i) ~> (Settled(i) /\ ~page.loading)

====
